---- MODULE Spec2Model ----
(***************************************************************************)
(* Model of the Go bridge of go-webui (src/lib.go): the callback registry  *)
(* funcList, the dispatcher goWebuiEvent that the engine calls on its own  *)
(* threads, and the application-side calls NewWindow, Bind, Show, Run,     *)
(* Close and Script.  The native engine (the C library behind cgo) is not  *)
(* part of the repository; its state and answers are modelled from the     *)
(* engine contract of the specification.                                   *)
(***************************************************************************)
EXTENDS Integers, Sequences, FiniteSets, TLC

\* ------------------------------------------------------------------ bounds

\* Window handles the engine hands out: 1..MaxWindows.
MaxWindows == 2

\* Public API calls the application thread makes in one run.
MaxCalls == 4

\* Length of the texts a single call of a pure function is tried on.
MaxText == 3

\* Width of int in bits, scaled down from the 64 of the build.
IntBits == 7

\* ------------------------------------------------------- program constants

WEBUI_EVENT_CALLBACK == 6

\* The default BufferSize of Script, (1024 * 8).
DefaultBufferSize == 1024 * 8

\* ---------------------------------------------------------- value domains

Windows == 1..MaxWindows

\* Element names; "" is the catch-all binding.
Elements == {"", "submit"}

\* The user callbacks handed to Bind, and the nil func value of Go.
Callbacks == {"cb1", "cb2"}

NilFunc == "nil"

\* Event numbers of the dispatches that can be in flight at the same time
\* (one per engine thread).
EventNumbers == {7, 8}

EventTypes == {WEBUI_EVENT_CALLBACK}

Payloads == {"hello"}

\* A text is a sequence of characters; NUL is the zero byte that ends a C
\* string.
NUL == "NUL"

Quote == "\""

\* Go values a callback can return (type any).  Nil is the nil interface;
\* "chan" is a channel, which encoding/json cannot encode.
Nil == [kind |-> "nil", val |-> <<>>]

Values ==
    { Nil,
      [kind |-> "string", val |-> <<"o", "k">>],
      [kind |-> "chan", val |-> <<>>] }

\* ---------------------------------------------------------------- helpers

\* Index of the first NUL of a text, 0 when there is none.
FirstNul(s) ==
    IF \E i \in 1..Len(s) : s[i] = NUL
    THEN CHOOSE i \in 1..Len(s) : s[i] = NUL /\ \A j \in 1..(i - 1) : s[j] # NUL
    ELSE 0

\* C.CString: the C side sees the bytes up to the first zero byte.
CString(s) == IF FirstNul(s) = 0 THEN s ELSE SubSeq(s, 1, FirstNul(s) - 1)

\* Variant of Marshal: the value printed as fmt.Sprint prints it, a string
\* without its quotes.
MarshalAsSprint(v) ==
    CASE v.kind = "string" -> [bytes |-> v.val, err |-> FALSE]
      [] v.kind = "nil"    -> [bytes |-> <<"n", "u", "l", "l">>, err |-> FALSE]
      [] OTHER             -> [bytes |-> <<>>, err |-> TRUE]

\* json.Marshal: the encoded bytes and whether an error was returned.  On an
\* error the byte slice is nil, so string(jsonRes) is the empty text.
Marshal(v) ==
    CASE v.kind = "string" -> [bytes |-> <<Quote>> \o v.val \o <<Quote>>, err |-> FALSE]
      [] v.kind = "ptr"    -> [bytes |-> <<"n", "u", "l", "l">>, err |-> FALSE]
      [] v.kind = "nil"    -> [bytes |-> <<"n", "u", "l", "l">>, err |-> FALSE]
      [] OTHER             -> [bytes |-> <<>>, err |-> TRUE]

\* A Go map read: the entry, or the zero value when the key is absent.
MapGet(m, k, zero) == IF k \in DOMAIN m THEN m[k] ELSE zero

\* A Go map write m[k] = v.
MapSet(m, k, v) == [x \in (DOMAIN m) \cup {k} |-> IF x = k THEN v ELSE m[x]]

EmptyMap == [x \in {} |-> NilFunc]

\* ------------------------------------------------------------------ state

VARIABLES
    funcList,    \* the registry: window -> (function id -> callback)
    engWin,      \* engine: state of each handle, "free", "open" or "closed"
    engBind,     \* engine: per window, element name -> function id
    app,         \* the application thread: position and current/last call
    calls,       \* public API calls started so far
    disp,        \* per event number: the dispatch running on an engine thread
    responses,   \* engine: the set-response writes it received, in order
    crashed,     \* the process: who brought it down and why
    lastBound,   \* history: per (window, element), callback of the last
                 \* Bind the engine accepted and that has returned
    boundOn      \* history: per window, the callbacks passed to Bind on it

vars ==
    <<funcList, engWin, engBind, app, calls, disp, responses, crashed, lastBound, boundOn>>

NotCrashed == [who |-> "none", why |-> "none"]

\* A position of the application thread.  Between two calls (pc "idle") the
\* record holds what the last call returned: the handle of NewWindow, the
\* text and error of Script, and of Bind, which returns nothing, the answer
\* of the engine it has consumed.
AppAt(pc, op, w, element, callback, funcId, rejected) ==
    [pc |-> pc, op |-> op, w |-> w, element |-> element, callback |-> callback,
     funcId |-> funcId, rejected |-> rejected, resp |-> <<>>, err |-> FALSE]

AppIdle(op, w) == AppAt("idle", op, w, "", NilFunc, 0, FALSE)

NoEvent == [Window |-> 0, EventType |-> 0, Element |-> "", Data |-> ""]

\* An engine thread that is not inside goWebuiEvent.
DispIdle ==
    [pc |-> "idle", window |-> 0, event_type |-> 0, element |-> "", data |-> "",
     e |-> NoEvent, funcId |-> 0, seen |-> NilFunc, raced |-> FALSE,
     callback |-> NilFunc, invocations |-> 0, result |-> Nil,
     logged |-> 0]

Init ==
    /\ funcList = EmptyMap
    /\ engWin = [w \in Windows |-> "free"]
    /\ engBind = [w \in Windows |-> EmptyMap]
    /\ app = AppIdle("none", 0)
    /\ calls = 0
    /\ disp = [n \in EventNumbers |-> DispIdle]
    /\ responses = <<>>
    /\ crashed = NotCrashed
    /\ lastBound = [w \in Windows |-> [el \in Elements |-> NilFunc]]
    /\ boundOn = [w \in Windows |-> {}]

Running == crashed = NotCrashed

\* ----------------------------------------------------------------- engine

\* create_window: a handle that is not in use (the lowest free one).
EngineNewWindow ==
    CHOOSE w \in Windows : engWin[w] = "free" /\ \A v \in Windows : engWin[v] = "free" => w <= v

\* bind accepts a request for an open window and rejects any other.
EngineAccepts(w) == engWin[w] = "open"

\* bind: the id of (w, element), minted on the first bind of the element and
\* stable afterwards; ids count from 1 within each window.  A rejected
\* request is answered with 0.
EngineBindId(w, element) ==
    IF ~EngineAccepts(w) THEN 0
    ELSE IF element \in DOMAIN engBind[w] THEN engBind[w][element]
    ELSE Cardinality(DOMAIN engBind[w]) + 1

\* get_bound_id: the id bound to (w, element), 0 when there is none.
EngineGetBindId(w, element) == MapGet(engBind[w], element, 0)

\* The number the engine gives the next event: the lowest one that no
\* dispatch in flight carries.
EngineEventNumber ==
    CHOOSE n \in EventNumbers :
        disp[n].pc = "idle" /\ \A m \in EventNumbers : disp[m].pc = "idle" => n <= m

\* The engine calls the event handler of an open window for an element that
\* is bound on it, and for every element when the window has a catch-all
\* binding.
EngineDelivers(w, element) ==
    /\ engWin[w] = "open"
    /\ (element \in DOMAIN engBind[w] \/ "" \in DOMAIN engBind[w])

\* ------------------------------------------------- the application thread

\* Variant of NewWindowStore: the whole registry is made anew.
NewWindowStoreFresh(fl, w) == MapSet([x \in {} |-> EmptyMap], w, EmptyMap)

\* Variant of NewWindowStore: no table is stored for w.
NewWindowStoreNone(fl, w) == fl

\* funcList[w] = make(map[uint]func(Event) any): a fresh, empty table for w.
NewWindowStore(fl, w) == MapSet(fl, w, EmptyMap)

\* Variant of BindStore: an entry that is there is kept.
BindStoreKeepFirst(fl, w, funcId, callback) ==
    IF funcId \in DOMAIN fl[w] THEN fl ELSE [fl EXCEPT ![w] = MapSet(@, funcId, callback)]

\* Variant of BindStore: the table of w is made anew for the entry.
BindStoreOnly(fl, w, funcId, callback) ==
    [fl EXCEPT ![w] = MapSet(EmptyMap, funcId, callback)]

\* funcList[w][funcId] = callback.
BindStore(fl, w, funcId, callback) == [fl EXCEPT ![w] = MapSet(@, funcId, callback)]

\* The handles the application holds: those NewWindow has returned.
Handles == DOMAIN funcList

\* A dispatch whose registry read is under way reads the map that a store
\* of the application thread writes: NewWindow stores into the outer map,
\* which every dispatch reads, Bind into the table of its window.
Overlaps(n, a) ==
    /\ disp[n].pc = "reading"
    /\ \/ a.pc = "NewWindow_writing"
       \/ a.pc = "Bind_writing" /\ a.w = disp[n].window

\* A dispatch in flight when the application thread reaches position a: its
\* read has raced once a store overlapped it.
Disturbed(n, a) == [disp[n] EXCEPT !.raced = @ \/ Overlaps(n, a)]

CanCall == Running /\ app.pc = "idle" /\ calls < MaxCalls

\* NewWindow, up to the start of the store into funcList: the engine has
\* created the window and returned its handle.
NewWindow ==
    /\ CanCall
    /\ \E w \in Windows : engWin[w] = "free"
    /\ LET w == EngineNewWindow IN
        /\ engWin' = [engWin EXCEPT ![w] = "open"]
        /\ app' = AppAt("NewWindow_writing", "NewWindow", w, "", NilFunc, 0, FALSE)
    /\ disp' = [n \in EventNumbers |-> Disturbed(n, app')]
    /\ calls' = calls + 1
    /\ UNCHANGED <<funcList, engBind, responses, crashed, lastBound, boundOn>>

\* NewWindow: the store into funcList completes and the handle is returned.
NewWindowReturn ==
    /\ Running
    /\ app.pc = "NewWindow_writing"
    /\ funcList' = NewWindowStore(funcList, app.w)
    /\ app' = AppIdle("NewWindow", app.w)
    /\ UNCHANGED <<engWin, engBind, calls, disp, responses, crashed, lastBound, boundOn>>

\* Bind, the engine call: the engine answers with the function id.
Bind(w, element, callback) ==
    /\ CanCall
    /\ w \in Handles
    /\ LET funcId == EngineBindId(w, element) IN
        /\ engBind' = IF EngineAccepts(w)
                      THEN [engBind EXCEPT ![w] = MapSet(@, element, funcId)]
                      ELSE engBind
        /\ app' = AppAt("Bind_store", "Bind", w, element, callback, funcId, ~EngineAccepts(w))
    /\ boundOn' = [boundOn EXCEPT ![w] = @ \cup {callback}]
    /\ calls' = calls + 1
    /\ UNCHANGED <<funcList, engWin, disp, responses, crashed, lastBound>>

\* Bind: the store into funcList[w] begins.
BindWriteBegin ==
    /\ Running
    /\ app.pc = "Bind_store"
    /\ app' = [app EXCEPT !.pc = "Bind_writing"]
    /\ disp' = [n \in EventNumbers |-> Disturbed(n, app')]
    /\ UNCHANGED <<funcList, engWin, engBind, calls, responses, crashed, lastBound, boundOn>>

\* Bind: the store completes and Bind returns (it has no result).
BindReturn ==
    /\ Running
    /\ app.pc = "Bind_writing"
    /\ funcList' = BindStore(funcList, app.w, app.funcId, app.callback)
    /\ lastBound' = IF app.rejected THEN lastBound
                    ELSE [lastBound EXCEPT ![app.w][app.element] = app.callback]
    /\ app' = AppAt("idle", "Bind", app.w, "", NilFunc, app.funcId, app.rejected)
    /\ UNCHANGED <<engWin, engBind, calls, disp, responses, crashed, boundOn>>

\* Show: passed through to the engine.
Show(w) ==
    /\ CanCall
    /\ w \in Handles
    /\ app' = AppIdle("Show", 0)
    /\ calls' = calls + 1
    /\ UNCHANGED <<funcList, engWin, engBind, disp, responses, crashed, lastBound, boundOn>>

\* Run: passed through to the engine, no response awaited.
Run(w) ==
    /\ CanCall
    /\ w \in Handles
    /\ app' = AppIdle("Run", 0)
    /\ calls' = calls + 1
    /\ UNCHANGED <<funcList, engWin, engBind, disp, responses, crashed, lastBound, boundOn>>

\* Close: the engine closes the window.
Close(w) ==
    /\ CanCall
    /\ w \in Handles
    /\ engWin' = [engWin EXCEPT ![w] = "closed"]
    /\ app' = AppIdle("Close", 0)
    /\ calls' = calls + 1
    /\ UNCHANGED <<funcList, engBind, disp, responses, crashed, lastBound, boundOn>>

\* Script options the application passes, and the responses the engine has
\* for a script.
BufferSizes == {0, 2}

ScriptResponses == {<<>>, <<"h", "i">>}

\* Variant of BufferCap: the default capacity, whatever the options say.
BufferCapDefaultOnly(BufferSize) == DefaultBufferSize

\* The capacity of the local buffer: options.BufferSize, 1024 * 8 when 0.
BufferCap(BufferSize) == IF BufferSize = 0 THEN DefaultBufferSize ELSE BufferSize

\* run_script: the engine writes its response into the buffer, truncated to
\* capacity - 1 bytes; the byte after it is the sentinel.
EngineScriptWrites(response, cap) ==
    IF Len(response) <= cap - 1 THEN response ELSE SubSeq(response, 1, cap - 1)

\* bytes.IndexByte(buffer, 0) on a buffer of cap bytes, zero when made, whose
\* first Len(written) bytes the engine has written: the 0-based index of the
\* first zero byte, -1 when there is none.
IndexByte(written, cap) ==
    IF FirstNul(written) # 0 THEN FirstNul(written) - 1
    ELSE IF Len(written) < cap THEN Len(written)
    ELSE -1

\* Variant of ScriptResult: an empty response counts as a failure too.
ScriptResultErrOnEmpty(written, cap, ok) ==
    LET respLen == IndexByte(written, cap) IN
    [panic |-> respLen < 0,
     resp  |-> IF respLen < 0 THEN <<>> ELSE SubSeq(written, 1, respLen),
     err   |-> ~ok \/ respLen = 0]

\* What Script makes of the engine's answer: buffer[:respLen] panics when
\* respLen is -1.
ScriptResult(written, cap, ok) ==
    LET respLen == IndexByte(written, cap) IN
    [panic |-> respLen < 0,
     resp  |-> IF respLen < 0 THEN <<>> ELSE SubSeq(written, 1, respLen),
     err   |-> ~ok]

\* Script: runs the script and waits for the response.  The engine reports
\* failure for a window that is not open, and may report it for an open one.
Script(w, BufferSize) ==
    /\ CanCall
    /\ w \in Handles
    /\ \E response \in ScriptResponses, ok \in BOOLEAN :
        /\ (engWin[w] # "open") => ~ok
        /\ LET cap == BufferCap(BufferSize)
               r   == ScriptResult(EngineScriptWrites(response, cap), cap, ok)
           IN IF r.panic
              THEN /\ crashed' = [who |-> "app", why |-> "slice bounds out of range"]
                   /\ app' = AppIdle("Script", 0)
              ELSE /\ crashed' = crashed
                   /\ app' = [AppIdle("Script", 0) EXCEPT !.resp = r.resp, !.err = r.err]
    /\ calls' = calls + 1
    /\ UNCHANGED <<funcList, engWin, engBind, disp, responses, lastBound, boundOn>>

\* C.GoString: the bytes of a C string, which ends at its first zero byte.
GoString(cs) == IF FirstNul(cs) = 0 THEN cs ELSE SubSeq(cs, 1, FirstNul(cs) - 1)

\* The engine's encode of a C string: every byte escaped, so that no byte
\* of the text stands for itself.
RECURSIVE EngineEncode(_)
EngineEncode(cs) ==
    IF cs = <<>> THEN <<>> ELSE <<"%", Head(cs)>> \o EngineEncode(Tail(cs))

\* The engine's decode, the inverse of its encode; nothing for a text that
\* is not an encoding.
EngineDecode(cs) ==
    IF Len(cs) % 2 = 0 /\ \A i \in 1..Len(cs) : (i % 2 = 1) => cs[i] = "%"
    THEN [i \in 1..(Len(cs) \div 2) |-> cs[2 * i]]
    ELSE <<>>

\* Encode: the text goes to the engine as a C string, and so does the result
\* on its way back.
Encode(str) == GoString(EngineEncode(CString(str)))

Decode(str) == GoString(EngineDecode(CString(str)))

\* Texts the application encodes or decodes.
CodecTexts == {<<"a">>, <<"%", "a">>}

\* Encode, called by the application: it returns the encoded text.
CallEncode(str) ==
    /\ CanCall
    /\ app' = [AppIdle("Encode", 0) EXCEPT !.resp = Encode(str)]
    /\ calls' = calls + 1
    /\ UNCHANGED <<funcList, engWin, engBind, disp, responses, crashed, lastBound, boundOn>>

\* Decode, called by the application: it returns the decoded text.
CallDecode(str) ==
    /\ CanCall
    /\ app' = [AppIdle("Decode", 0) EXCEPT !.resp = Decode(str)]
    /\ calls' = calls + 1
    /\ UNCHANGED <<funcList, engWin, engBind, disp, responses, crashed, lastBound, boundOn>>

\* ------------------------------------------------------------- dispatcher

\* Variant of NewEvent: the element and the payload change places.
NewEventSwapped(window, event_type, element, data) ==
    [Window |-> window, EventType |-> event_type, Element |-> data, Data |-> element]

\* The Event built from the raw arguments of the call.
NewEvent(window, event_type, element, data) ==
    [Window |-> window, EventType |-> event_type, Element |-> element, Data |-> data]

\* Variant of Lookup: one table for all windows, keyed by the function id.
LookupById(fl, window, funcId) ==
    LET ws == {w \in DOMAIN fl : funcId \in DOMAIN fl[w]}
    IN IF ws = {} THEN NilFunc
       ELSE fl[CHOOSE w \in ws : \A v \in ws : w <= v][funcId]

\* funcList[Window(window)][funcId]: the nil func when either key is absent.
Lookup(fl, window, funcId) == MapGet(MapGet(fl, window, EmptyMap), funcId, NilFunc)

\* Variant of ResponseWrites: a nil result is answered with JSON null.
ResponseWritesNullForNil(window, event_number, result) ==
    <<[window |-> window, event_number |-> event_number,
       text |-> CString(Marshal(result).bytes)]>>

\* Variant of ResponseWrites: no response when json.Marshal failed.
ResponseWritesSkipOnError(window, event_number, result) ==
    IF result = Nil \/ Marshal(result).err THEN <<>>
    ELSE <<[window |-> window, event_number |-> event_number,
            text |-> CString(Marshal(result).bytes)]>>

\* Variant of ResponseWrites: the event number is kept in a variable that
\* all dispatches share, here the one of the first engine thread.
ResponseWritesSharedNumber(window, event_number, result) ==
    IF result = Nil THEN <<>>
    ELSE <<[window |-> window,
            event_number |-> CHOOSE n \in EventNumbers : \A m \in EventNumbers : n <= m,
            text |-> CString(Marshal(result).bytes)]>>

\* The set-response writes of one dispatch: none for a nil result, else one
\* with string(jsonRes), whatever json.Marshal returned.
ResponseWrites(window, event_number, result) ==
    IF result = Nil THEN <<>>
    ELSE <<[window |-> window, event_number |-> event_number,
            text |-> CString(Marshal(result).bytes)]>>

\* The log lines of one dispatch: one when json.Marshal returned an error.
LogLines(result) == IF result # Nil /\ Marshal(result).err THEN 1 ELSE 0

\* The engine calls goWebuiEvent on one of its threads; the Event is built
\* and the function id resolved.
DispatchBegin(n, window, event_type, element, data) ==
    /\ Running
    /\ disp[n].pc = "idle"
    /\ n = EngineEventNumber
    /\ EngineDelivers(window, element)
    /\ LET funcId == EngineGetBindId(window, element) IN
       disp' = [disp EXCEPT ![n] =
                  [DispIdle EXCEPT !.pc = "lookup", !.window = window,
                                   !.event_type = event_type, !.element = element,
                                   !.data = data,
                                   !.e = NewEvent(window, event_type, element, data),
                                   !.funcId = funcId]]
    /\ UNCHANGED <<funcList, engWin, engBind, app, calls, responses, crashed, lastBound, boundOn>>

\* The read of funcList[Window(window)][funcId] begins.
LookupBegin(n) ==
    /\ Running
    /\ disp[n].pc = "lookup"
    /\ LET d == [disp[n] EXCEPT !.pc = "reading",
                                !.seen = Lookup(funcList, disp[n].window, disp[n].funcId)]
       IN disp' = [disp EXCEPT ![n] =
                     [d EXCEPT !.raced = \/ app.pc = "NewWindow_writing"
                                         \/ app.pc = "Bind_writing" /\ app.w = d.window]]
    /\ UNCHANGED <<funcList, engWin, engBind, app, calls, responses, crashed, lastBound, boundOn>>

\* The entries a read can return: the one the map held when the read began
\* and, when a store overlapped the read, the one the store puts there.
Observable(n) ==
    LET d == disp[n]
        stored == IF app.pc = "Bind_writing"
                  THEN BindStore(funcList, app.w, app.funcId, app.callback)
                  ELSE funcList
    IN IF d.raced THEN {d.seen, Lookup(stored, d.window, d.funcId)}
       ELSE {Lookup(funcList, d.window, d.funcId)}

\* Variant of LookupCall: the response is set when the callback is called,
\* not when it has returned.
LookupCallRespondsFirst(n) ==
    /\ Running
    /\ disp[n].pc = "reading"
    /\ \E callback \in Observable(n) :
         IF callback = NilFunc
         THEN /\ crashed' = [who |-> "dispatch", why |-> "nil func call"]
              /\ disp' = [disp EXCEPT ![n].pc = "crashed"]
              /\ responses' = responses
         ELSE /\ crashed' = crashed
              /\ disp' = [disp EXCEPT ![n].pc = "called",
                                      ![n].callback = callback,
                                      ![n].invocations = @ + 1,
                                      ![n].seen = NilFunc,
                                      ![n].raced = FALSE]
              /\ responses' = responses \o <<[window |-> disp[n].window,
                                              event_number |-> n, text |-> <<>>]>>
    /\ UNCHANGED <<funcList, engWin, engBind, app, calls, lastBound, boundOn>>

\* The read completes and the callback it returned is called with the Event;
\* the callback is then running.  A read that overlapped a store may instead
\* be stopped by the runtime (fatal error: concurrent map read and map
\* write); calling the nil func panics; either ends the process.
LookupCall(n) ==
    /\ Running
    /\ disp[n].pc = "reading"
    /\ \/ /\ disp[n].raced
          /\ crashed' = [who |-> "dispatch", why |-> "concurrent map read and map write"]
          /\ disp' = [disp EXCEPT ![n].pc = "crashed"]
       \/ \E callback \in Observable(n) :
            IF callback = NilFunc
            THEN /\ crashed' = [who |-> "dispatch", why |-> "nil func call"]
                 /\ disp' = [disp EXCEPT ![n].pc = "crashed"]
            ELSE /\ crashed' = crashed
                 /\ disp' = [disp EXCEPT ![n].pc = "called",
                                         ![n].callback = callback,
                                         ![n].invocations = @ + 1,
                                         ![n].seen = NilFunc,
                                         ![n].raced = FALSE]
    /\ UNCHANGED <<funcList, engWin, engBind, app, calls, responses, lastBound, boundOn>>

\* The callback returns its result and the rest of goWebuiEvent runs:
\* nothing for a nil result, else marshal, log a failure, and set the
\* response.  The call returns; of its locals the record keeps what the
\* invocation was.
Respond(n) ==
    /\ Running
    /\ disp[n].pc = "called"
    /\ \E result \in Values :
        /\ responses' = responses \o ResponseWrites(disp[n].window, n, result)
        /\ disp' = [disp EXCEPT ![n] =
                      [DispIdle EXCEPT !.pc = "done", !.window = disp[n].window,
                                       !.result = result,
                                       !.invocations = disp[n].invocations,
                                       !.logged = LogLines(result)]]
    /\ UNCHANGED <<funcList, engWin, engBind, app, calls, crashed, lastBound, boundOn>>

\* goWebuiEvent has returned; the engine takes the response of the event.
DispatchEnd(n) ==
    /\ Running
    /\ disp[n].pc = "done"
    /\ disp' = [disp EXCEPT ![n] = DispIdle]
    /\ responses' = SelectSeq(responses, LAMBDA r : r.event_number # n)
    /\ UNCHANGED <<funcList, engWin, engBind, app, calls, crashed, lastBound, boundOn>>

\* ---------------------------------------------------------- specification

Next ==
    \/ NewWindow
    \/ NewWindowReturn
    \/ \E w \in Windows, element \in Elements, callback \in Callbacks : Bind(w, element, callback)
    \/ BindWriteBegin
    \/ BindReturn
    \/ \E w \in Windows : Show(w)
    \/ \E w \in Windows : Run(w)
    \/ \E w \in Windows : Close(w)
    \/ \E w \in Windows, BufferSize \in BufferSizes : Script(w, BufferSize)
    \/ \E str \in CodecTexts : CallEncode(str)
    \/ \E str \in CodecTexts : CallDecode(str)
    \/ \E n \in EventNumbers, window \in Windows, event_type \in EventTypes,
          element \in Elements, data \in Payloads :
            DispatchBegin(n, window, event_type, element, data)
    \/ \E n \in EventNumbers : LookupBegin(n)
    \/ \E n \in EventNumbers : LookupCall(n)
    \/ \E n \in EventNumbers : Respond(n)
    \/ \E n \in EventNumbers : DispatchEnd(n)

Spec == Init /\ [][Next]_vars

\* ------------------------------------- single calls of the pure functions

\* The application thread alone, at one call of a function that touches no
\* shared state: app holds the arguments, then what the call returned.
PureCall(op, arg, BufferSize, terminated, ok) ==
    [pc |-> "call", op |-> op, arg |-> arg, BufferSize |-> BufferSize,
     terminated |-> terminated, ok |-> ok,
     resp |-> <<>>, decoded |-> <<>>, err |-> FALSE, num |-> 0, bool |-> FALSE,
     logged |-> 0]

\* Texts of at most n characters over an alphabet.
Texts(alphabet, n) == UNION {[1..k -> alphabet] : k \in 0..n}

\* Responses the engine has for a script, of up to MaxText bytes.
PureScriptResponses == Texts({"h", "i"}, MaxText)

\* What run_script leaves in the buffer: the response truncated to
\* capacity - 1 bytes and the sentinel after it or, when it does not
\* terminate what it copies, the response truncated to the capacity.
EngineLeaves(response, cap, terminated) ==
    IF terminated THEN EngineScriptWrites(response, cap)
    ELSE IF Len(response) <= cap THEN response
    ELSE SubSeq(response, 1, cap)

PureScriptCalls ==
    {PureCall("Script", response, BufferSize, terminated, ok) :
        response \in PureScriptResponses, BufferSize \in BufferSizes,
        terminated \in BOOLEAN, ok \in BOOLEAN}

\* One call of Script, from the buffer the engine left to the return.
PureScript ==
    /\ Running
    /\ app.pc = "call" /\ app.op = "Script"
    /\ LET cap == BufferCap(app.BufferSize)
           r   == ScriptResult(EngineLeaves(app.arg, cap, app.terminated), cap, app.ok)
       IN IF r.panic
          THEN /\ crashed' = [who |-> "app", why |-> "slice bounds out of range"]
               /\ app' = [app EXCEPT !.pc = "panicked"]
          ELSE /\ crashed' = crashed
               /\ app' = [app EXCEPT !.pc = "returned", !.resp = r.resp, !.err = r.err]
    /\ UNCHANGED <<funcList, engWin, engBind, calls, disp, responses, lastBound, boundOn>>

\* Texts to encode: a letter, a markup character and the zero byte.
PureCodecCalls ==
    {PureCall("Codec", str, 0, TRUE, TRUE) : str \in Texts({"a", "<", NUL}, MaxText)}

PureEncode ==
    /\ Running
    /\ app.pc = "call" /\ app.op = "Codec"
    /\ app' = [app EXCEPT !.pc = "encoded", !.resp = Encode(app.arg)]
    /\ UNCHANGED <<funcList, engWin, engBind, calls, disp, responses, crashed, lastBound, boundOn>>

\* Decode, called on what Encode returned.
PureDecode ==
    /\ Running
    /\ app.pc = "encoded" /\ app.op = "Codec"
    /\ app' = [app EXCEPT !.pc = "returned", !.decoded = Decode(app.resp)]
    /\ UNCHANGED <<funcList, engWin, engBind, calls, disp, responses, crashed, lastBound, boundOn>>

\* The largest int.
MaxInt == 2 ^ (IntBits - 1) - 1

DigitVal(c) ==
    CASE c = "0" -> 0 [] c = "1" -> 1 [] c = "2" -> 2 [] c = "3" -> 3
      [] c = "4" -> 4 [] c = "5" -> 5 [] c = "6" -> 6 [] c = "7" -> 7
      [] c = "8" -> 8 [] c = "9" -> 9 [] OTHER -> -1

\* The number a text of decimal digits stands for.
RECURSIVE DecimalOf(_)
DecimalOf(digits) ==
    IF digits = <<>> THEN 0
    ELSE 10 * DecimalOf(SubSeq(digits, 1, Len(digits) - 1)) + DigitVal(digits[Len(digits)])

\* strconv.Atoi: an optional sign and decimal digits.  A text that is not
\* one gives 0 and a syntax error; a number that does not fit an int gives
\* the int nearest to it and a range error.
Atoi(str) ==
    LET signed == Len(str) > 0 /\ str[1] \in {"+", "-"}
        neg    == Len(str) > 0 /\ str[1] = "-"
        digits == IF signed THEN Tail(str) ELSE str
    IN IF digits = <<>> \/ \E i \in 1..Len(digits) : DigitVal(digits[i]) < 0
       THEN [num |-> 0, err |-> "syntax"]
       ELSE IF ~neg /\ DecimalOf(digits) > MaxInt
       THEN [num |-> MaxInt, err |-> "range"]
       ELSE IF neg /\ DecimalOf(digits) > MaxInt + 1
       THEN [num |-> -(MaxInt + 1), err |-> "range"]
       ELSE [num |-> IF neg THEN -DecimalOf(digits) ELSE DecimalOf(digits), err |-> "none"]

\* strconv.ParseBool: the texts it accepts, false and an error for the rest.
ParseBool(str) ==
    IF str \in {<<"1">>, <<"t">>, <<"T">>, <<"T", "R", "U", "E">>,
                <<"t", "r", "u", "e">>, <<"T", "r", "u", "e">>}
    THEN [bool |-> TRUE, err |-> "none"]
    ELSE IF str \in {<<"0">>, <<"f">>, <<"F">>, <<"F", "A", "L", "S", "E">>,
                     <<"f", "a", "l", "s", "e">>, <<"F", "a", "l", "s", "e">>}
    THEN [bool |-> FALSE, err |-> "none"]
    ELSE [bool |-> FALSE, err |-> "syntax"]

\* Data.Int: what Atoi returned, and a log line when it returned an error.
DataInt(d) == [num |-> Atoi(d).num, logged |-> IF Atoi(d).err # "none" THEN 1 ELSE 0]

\* Data.Bool: what ParseBool returned, and a log line on an error.
DataBool(d) == [bool |-> ParseBool(d).bool, logged |-> IF ParseBool(d).err # "none" THEN 1 ELSE 0]

IntPayloads == Texts({"4", "2", "9", "-", "x"}, MaxText)

BoolPayloads ==
    {<<"t", "r", "u", "e">>, <<"f", "a", "l", "s", "e">>, <<"1">>, <<"0">>,
     <<"T">>, <<"F", "A", "L", "S", "E">>, <<"y", "e", "s">>, <<>>}

PureDataCalls ==
    {PureCall("Int", d, 0, TRUE, TRUE) : d \in IntPayloads}
        \cup {PureCall("Bool", d, 0, TRUE, TRUE) : d \in BoolPayloads}

PureInt ==
    /\ Running
    /\ app.pc = "call" /\ app.op = "Int"
    /\ app' = [app EXCEPT !.pc = "returned", !.num = DataInt(app.arg).num,
                          !.logged = DataInt(app.arg).logged]
    /\ UNCHANGED <<funcList, engWin, engBind, calls, disp, responses, crashed, lastBound, boundOn>>

PureBool ==
    /\ Running
    /\ app.pc = "call" /\ app.op = "Bool"
    /\ app' = [app EXCEPT !.pc = "returned", !.bool = DataBool(app.arg).bool,
                          !.logged = DataBool(app.arg).logged]
    /\ UNCHANGED <<funcList, engWin, engBind, calls, disp, responses, crashed, lastBound, boundOn>>

PureCalls == PureScriptCalls \cup PureCodecCalls \cup PureDataCalls

InitPure ==
    /\ funcList = EmptyMap
    /\ engWin = [w \in Windows |-> "free"]
    /\ engBind = [w \in Windows |-> EmptyMap]
    /\ app \in PureCalls
    /\ calls = 0
    /\ disp = [n \in EventNumbers |-> DispIdle]
    /\ responses = <<>>
    /\ crashed = NotCrashed
    /\ lastBound = [w \in Windows |-> [el \in Elements |-> NilFunc]]
    /\ boundOn = [w \in Windows |-> {}]

NextPure ==
    \/ PureScript
    \/ PureEncode
    \/ PureDecode
    \/ PureInt
    \/ PureBool

SpecPure == InitPure /\ [][NextPure]_vars

\* ------------------------------------------------------------ properties

\* The set-response writes the engine holds for event number n.
ResponsesOf(n) == SelectSeq(responses, LAMBDA r : r.event_number = n)

\* The registry holds a callback under (w, funcId).
Registered(w, funcId) == Lookup(funcList, w, funcId) # NilFunc

\* The texts that are a JSON encoding of a Go value; a channel has none.
JsonOf(v) ==
    CASE v.kind = "string" -> {<<Quote>> \o v.val \o <<Quote>>}
      [] v.kind = "nil"    -> {<<"n", "u", "l", "l">>}
      [] OTHER             -> {}

\* C1: a dispatch for a (window, functionId) that has no callback in the
\* registry returns without a response and without crashing the process:
\* the process is never brought down by the call of a missing callback.
C1_UnregisteredDispatchReturns ==
    \A n \in EventNumbers :
        ~(disp[n].pc = "crashed" /\ crashed.why = "nil func call")

\* C2: a registration running concurrently with dispatches is safe: no
\* state has a registry read and a registry store overlapping, and no read
\* ends in anything but the previous or the new entry of its key.
C2_RegistrationIsSynchronized ==
    /\ \A n \in EventNumbers : ~Overlaps(n, app)
    /\ crashed.why # "concurrent map read and map write"

\* C3: a dispatch whose callback returned nil writes no response for its
\* event number (and none is there before the callback has returned).
C3_NilResultNoResponse ==
    \A n \in EventNumbers :
        (disp[n].pc # "done" \/ disp[n].result = Nil) => ResponsesOf(n) = <<>>

C3_Witness ==
    \E n \in EventNumbers :
        /\ disp[n].pc = "done" /\ disp[n].result = Nil /\ disp[n].invocations = 1
        /\ ResponsesOf(n) = <<>>

\* One response for event number n, addressed to the window of the dispatch.
OneResponse(n) ==
    /\ Len(ResponsesOf(n)) = 1
    /\ ResponsesOf(n)[1].window = disp[n].window
    /\ ResponsesOf(n)[1].event_number = n

\* C4, as stated: a dispatch whose callback returned a non-nil value v has
\* written exactly one response, to its window and under its event number,
\* whose text is the JSON encoding of v.
C4_ResponseIsJsonOfResult ==
    \A n \in EventNumbers :
        (disp[n].pc = "done" /\ disp[n].result # Nil) =>
            /\ OneResponse(n)
            /\ ResponsesOf(n)[1].text \in JsonOf(disp[n].result)

\* C4, amended: exactly one response, to its window and under its event
\* number; its text is the JSON encoding of v when v has one, and the empty
\* text when v has none.
C4_ResponseIsJsonOrEmpty ==
    \A n \in EventNumbers :
        (disp[n].pc = "done" /\ disp[n].result # Nil) =>
            /\ OneResponse(n)
            /\ IF JsonOf(disp[n].result) = {}
               THEN ResponsesOf(n)[1].text = <<>>
               ELSE ResponsesOf(n)[1].text \in JsonOf(disp[n].result)

C4_Witness ==
    \E n \in EventNumbers :
        /\ disp[n].pc = "done" /\ disp[n].result.kind = "string"
        /\ OneResponse(n)
        /\ ResponsesOf(n)[1].text = <<Quote, "o", "k", Quote>>

\* C5: a dispatch for a window invokes only a callback that was passed to
\* Bind on that window, never one bound on another window only.
C5_LookupsNeverCrossWindows ==
    \A n \in EventNumbers :
        disp[n].pc = "called" => disp[n].callback \in boundOn[disp[n].window]

C5_Witness ==
    \E n \in EventNumbers, w2 \in Windows :
        /\ disp[n].pc = "called"
        /\ w2 # disp[n].window
        /\ Registered(w2, disp[n].funcId)
        /\ disp[n].callback \notin boundOn[w2]
        /\ disp[n].callback \in boundOn[disp[n].window]

\* Dispatch n is in flight with its (window, id) registered (or its callback
\* already invoked) and its read of the registry not overlapped by a store.
Undisturbed(n) ==
    /\ disp[n].pc \in {"lookup", "reading", "called", "done"}
    /\ ~disp[n].raced
    /\ disp[n].pc \in {"called", "done"} \/ Registered(disp[n].window, disp[n].funcId)

\* The step serves dispatch n as its own, beside dispatch m: it does not
\* crash; when its read completes, the callback invoked is the entry of its
\* own key, invoked once; when it returns, the responses under its event
\* number are its own (none for a nil result, otherwise one, for its window)
\* and those of the other dispatch are untouched.
Served(n, m) ==
    /\ disp'[n].pc # "crashed"
    /\ (disp[n].pc = "reading" /\ disp'[n].pc = "called") =>
         /\ disp'[n].callback = Lookup(funcList, disp[n].window, disp[n].funcId)
         /\ disp'[n].invocations = 1
    /\ (disp[n].pc = "called" /\ disp'[n].pc = "done") =>
         /\ disp'[n].invocations = 1
         /\ IF disp'[n].result = Nil THEN ResponsesOf(n)' = <<>> ELSE OneResponse(n)'
         /\ ResponsesOf(m)' = ResponsesOf(m)

\* C6: two concurrent dispatches of registered pairs, with no registration
\* in flight, are both served in every interleaving: each invokes its own
\* callback once and each response carries its own event number.
C6_ConcurrentDispatchesServed ==
    [][\A n, m \in EventNumbers :
          (n # m /\ app.pc = "idle" /\ Undisturbed(n) /\ Undisturbed(m))
          => Served(n, m) /\ Served(m, n)]_vars

C6_Witness ==
    \E n, m \in EventNumbers :
        /\ n # m /\ app.pc = "idle" /\ Undisturbed(n) /\ Undisturbed(m)
        /\ disp[n].pc = "done" /\ disp[m].pc = "done"
        /\ disp[n].window # disp[m].window
        /\ disp[n].invocations = 1 /\ disp[m].invocations = 1
        /\ OneResponse(n) /\ OneResponse(m)

\* C7: a bind request the engine rejected surfaces as an error to the caller
\* of Bind and leaves no callback under the id the engine answered with.
C7_RejectedBindSurfaces ==
    (app.pc = "idle" /\ app.op = "Bind" /\ app.rejected) =>
        /\ app.err
        /\ ~Registered(app.w, app.funcId)

\* C8: re-binding replaces: whenever a dispatch for element e of window w,
\* with e bound on w and its read not overlapped by a store, invokes a
\* callback, it is the callback of the most recent Bind(w, e, ...) the
\* engine accepted.
C8_RebindReplaces ==
    [][\A n \in EventNumbers :
          ( /\ disp[n].pc = "reading" /\ disp'[n].pc = "called"
            /\ ~disp[n].raced
            /\ disp[n].funcId # 0 )
          => disp'[n].callback = lastBound[disp[n].window][disp[n].element]]_vars

C8_Witness ==
    \E n \in EventNumbers :
        /\ disp[n].pc = "called" /\ disp[n].funcId # 0
        /\ DOMAIN funcList[disp[n].window] = {disp[n].funcId}
        /\ boundOn[disp[n].window] = Callbacks
        /\ disp[n].callback = lastBound[disp[n].window][disp[n].element]
        /\ disp[n].callback = "cb2"

\* C9: no step removes an entry of the registry while its window is alive.
C9_NeverRemovesEntry ==
    [][\A w \in Windows, funcId \in 0..Cardinality(Elements) :
          (Registered(w, funcId) /\ engWin[w] = "open") => Registered(w, funcId)']_vars

C9_Witness ==
    /\ Registered(1, 1)
    /\ 2 \in DOMAIN funcList
    /\ engWin[1] = "open" /\ engWin[2] = "closed"
    /\ \E n \in EventNumbers : disp[n].pc = "done" /\ disp[n].window = 1

\* C10: when json.Marshal fails on a non-nil result, the dispatch still
\* writes exactly one response, with the empty text and under its event
\* number, and logs one line; the dispatch returns.
C10_MarshalFailureStillResponds ==
    \A n \in EventNumbers :
        (disp[n].pc = "done" /\ disp[n].result # Nil /\ Marshal(disp[n].result).err) =>
            /\ OneResponse(n)
            /\ ResponsesOf(n)[1].text = <<>>
            /\ disp[n].logged = 1

C10_Witness ==
    \E n \in EventNumbers :
        /\ disp[n].pc = "done" /\ disp[n].result.kind = "chan"
        /\ OneResponse(n) /\ ResponsesOf(n)[1].text = <<>> /\ disp[n].logged = 1

\* The capacity Script is to use for a BufferSize option.
CapOf(BufferSize) == IF BufferSize = 0 THEN DefaultBufferSize ELSE BufferSize

\* A call of Script, for which the engine terminated what it wrote, is over.
ScriptOver ==
    /\ app.op = "Script" /\ app.pc # "call" /\ app.terminated

\* C11: with the engine's response longer than cap - 1 bytes Script returns
\* its first cap - 1 bytes, exactly; a response of at most cap - 1 bytes is
\* returned whole (cap is 8192 for BufferSize 0).
C11_ScriptTruncatesToCap ==
    ScriptOver =>
        /\ app.pc = "returned"
        /\ IF Len(app.arg) > CapOf(app.BufferSize) - 1
           THEN /\ Len(app.resp) = CapOf(app.BufferSize) - 1
                /\ app.resp = SubSeq(app.arg, 1, CapOf(app.BufferSize) - 1)
           ELSE app.resp = app.arg

C11_Witness ==
    /\ ScriptOver /\ app.pc = "returned"
    /\ app.BufferSize = 2 /\ app.arg = <<"h", "i">> /\ app.resp = <<"h">>

\* C12: Script returns an error exactly when the engine reported failure,
\* whatever the buffer holds, and in either case the text is the buffer
\* content up to the first sentinel.
C12_ScriptErrorIsEngineFailure ==
    ScriptOver =>
        /\ app.pc = "returned"
        /\ app.err = ~app.ok
        /\ app.resp = EngineScriptWrites(app.arg, CapOf(app.BufferSize))

C12_Witness ==
    /\ ScriptOver /\ app.pc = "returned"
    /\ ~app.ok /\ app.err /\ app.resp = <<"h">>

\* C17: no outcome of a Script call ends the process: whatever the engine
\* reported and left in the buffer, a buffer without a zero byte included,
\* Script returns to its caller.
C17_ScriptNeverPanics ==
    (app.op = "Script" /\ app.pc # "call") => (app.pc = "returned" /\ Running)

\* C13: Decode(Encode(s)) is s for every text s, the empty text and texts
\* with a zero byte or a markup character included.
C13_DecodeInvertsEncode ==
    (app.op = "Codec" /\ app.pc = "returned") => app.decoded = app.arg

\* A payload Atoi takes for an int: an optional sign, then digits only, of
\* a number that fits.
ParsesAsInt(d) == Atoi(d).err = "none"

ParsesAsBool(d) == ParseBool(d).err = "none"

\* C15: Data.Int and Data.Bool return the parsed value of a payload that
\* parses ("42" gives 42, "true" gives true) and, for one that does not, log
\* one line and return the zero value; either way they return.
C15_ParseOrZeroValue ==
    /\ (app.op = "Int" /\ app.pc # "call") =>
          /\ app.pc = "returned" /\ Running
          /\ (app.arg = <<"4", "2">>) => (app.num = 42 /\ app.logged = 0)
          /\ ~ParsesAsInt(app.arg) => (app.num = 0 /\ app.logged = 1)
    /\ (app.op = "Bool" /\ app.pc # "call") =>
          /\ app.pc = "returned" /\ Running
          /\ (app.arg = <<"t", "r", "u", "e">>) => (app.bool /\ app.logged = 0)
          /\ ~ParsesAsBool(app.arg) => (~app.bool /\ app.logged = 1)

\* C14: the Event the callback is called with carries the window, the event
\* type, the element and the payload of the raw arguments of its own
\* dispatch.
C14_EventCarriesRawArguments ==
    \A n \in EventNumbers :
        disp[n].pc \in {"lookup", "reading", "called"} =>
            /\ disp[n].e.Window = disp[n].window
            /\ disp[n].e.EventType = disp[n].event_type
            /\ disp[n].e.Element = disp[n].element
            /\ disp[n].e.Data = disp[n].data

C14_Witness ==
    /\ disp[7].pc = "called" /\ disp[8].pc = "called"
    /\ disp[7].e = [Window |-> 1, EventType |-> WEBUI_EVENT_CALLBACK,
                    Element |-> "submit", Data |-> "hello"]
    /\ disp[8].e.Element = ""

\* C16: once Bind(w, "", cb) has returned, a dispatch for w and an element
\* that has no binding of its own calls a callback (unless the runtime
\* stops its read of the registry): the lookup finds the catch-all one.
C16_CatchAllServesUnboundElements ==
    \A n \in EventNumbers :
        ( /\ disp[n].pc \in {"called", "crashed"}
          /\ crashed.why # "concurrent map read and map write"
          /\ lastBound[disp[n].window][""] # NilFunc
          /\ disp[n].element \notin DOMAIN engBind[disp[n].window] )
        => disp[n].pc = "called"

\* C18: within one dispatch the callback is called once, after the id was
\* resolved; no response is set before the callback has returned, and the
\* dispatch has returned only after the response was set.
C18_CallThenRespondThenReturn ==
    \A n \in EventNumbers :
        /\ disp[n].pc \in {"idle", "lookup", "reading", "crashed"} =>
              (disp[n].invocations = 0 /\ ResponsesOf(n) = <<>>)
        /\ disp[n].pc = "called" =>
              (disp[n].invocations = 1 /\ ResponsesOf(n) = <<>>)
        /\ disp[n].pc = "done" =>
              /\ disp[n].invocations = 1
              /\ ResponsesOf(n) = ResponseWrites(disp[n].window, n, disp[n].result)

C18_Witness ==
    /\ disp[7].pc = "done" /\ Len(ResponsesOf(7)) = 1
    /\ disp[8].pc = "called" /\ ResponsesOf(8) = <<>>

\* The tables of the windows other than w are what they were.
OtherTablesKept(w) ==
    \A v \in (DOMAIN funcList \cup DOMAIN funcList') \ {w} :
        v \in DOMAIN funcList /\ v \in DOMAIN funcList' /\ funcList'[v] = funcList[v]

\* The entries of the table of w other than that of funcId are what they
\* were.
OtherEntriesKept(w, funcId) ==
    /\ w \in DOMAIN funcList /\ w \in DOMAIN funcList'
    /\ \A id \in (DOMAIN funcList[w] \cup DOMAIN funcList'[w]) \ {funcId} :
        id \in DOMAIN funcList[w] /\ id \in DOMAIN funcList'[w]
            /\ funcList'[w][id] = funcList[w][id]

\* C19: the store of Bind(w, e, cb) changes the entry of (w, id of e) and
\* nothing else of the registry, the store of NewWindow the table of the
\* handle it returns and nothing else; every other step (of a dispatch, of
\* Script, Run, Show, Close, Encode, Decode) leaves the registry as it was.
C19_RegistryFrame ==
    [][ IF app.pc = "Bind_writing" /\ app'.pc = "idle"
        THEN OtherTablesKept(app.w) /\ OtherEntriesKept(app.w, app.funcId)
        ELSE IF app.pc = "NewWindow_writing" /\ app'.pc = "idle"
        THEN OtherTablesKept(app.w)
        ELSE funcList' = funcList ]_vars

C19_Witness ==
    /\ app.pc = "idle" /\ app.op = "Bind"
    /\ Cardinality(DOMAIN funcList) = 2
    /\ Cardinality(DOMAIN funcList[app.w]) = 2

\* NewWindow has returned the handle w.
Returned(w) ==
    /\ engWin[w] # "free"
    /\ ~(app.pc = "NewWindow_writing" /\ app.w = w)

\* C20: every handle NewWindow has returned has a table of its own in the
\* registry, which is empty when NewWindow returns.
C20_ReturnedHandleHasTable ==
    \A w \in Windows :
        Returned(w) =>
            /\ w \in DOMAIN funcList
            /\ (app.pc = "idle" /\ app.op = "NewWindow" /\ app.w = w) =>
                  funcList[w] = EmptyMap

C20_Witness ==
    /\ app.pc = "idle" /\ app.op = "NewWindow" /\ app.w = 2
    /\ funcList[2] = EmptyMap /\ funcList[1] # EmptyMap

====
